---- MODULE Spec2Model ----
(***************************************************************************)
(* Model of script.js: the "latest release" fetch-and-cache pipeline.      *)
(*                                                                         *)
(* JavaScript values are tagged records: [t |-> "undefined"],              *)
(* [t |-> "null"], [t |-> "number", n |-> ..], [t |-> "string", s |-> ..]  *)
(* (s a sequence of one-character strings), [t |-> "array", a |-> <<..>>], *)
(* [t |-> "object", p |-> record of the properties that are present].      *)
(* The clock counts milliseconds; at page load it reads Start, which is     *)
(* more than CACHE_TTL_MS, as the epoch clock does.                        *)
(***************************************************************************)
EXTENDS Integers, Sequences, FiniteSets, TLC

VARIABLES
  store,     \* localStorage: cache key -> stored item
  now,       \* Date.now()
  ri,        \* position of run: index of the resource being handled
  pc,        \* where run / fetchLatestRelease is suspended
  attempt,   \* loop variable of fetchLatestRelease
  lastErr,   \* local of fetchLatestRelease
  requests,  \* network requests issued by the current fetchLatestRelease call
  waits,     \* backoff delays slept by the current call, in order
  timer,     \* the setTimeout of fetchWithTimeout is pending
  aborted,   \* controller.abort() has run in the latest fetchWithTimeout
  res,       \* the response fetch resolved with, while its body is awaited
  fetched,   \* what res.json() gave the current call, if it gave anything
  wrote,     \* how the setItem of the current call ended, if there was one
  ret,       \* how the current fetchLatestRelease call settled
  sinks,     \* the page: selector -> what was written there
  fin,       \* the arguments of a call of one of the pure functions
  fout       \* what that call, and a call on its result, returned

vars == <<store, now, ri, pc, attempt, lastErr, requests, waits, timer, aborted, res,
          fetched, wrote, ret, sinks, fin, fout>>

-----------------------------------------------------------------------------
(* Program constants *)

CACHE_PREFIX == "boiler:gh_latest:"
CACHE_TTL_MS == 6 * 60 * 60 * 1000
MAX_RETRIES == 2

(* Bounds of the model *)
MaxTick == 1      \* 1 ms steps of the clock
MaxJump == 1      \* CACHE_TTL_MS steps of the clock

\* Date.now() when the page is loaded
Start == CACHE_TTL_MS + 1

-----------------------------------------------------------------------------
(* JavaScript values *)

Undefined == [t |-> "undefined"]
JNull == [t |-> "null"]
JNum(n) == [t |-> "number", n |-> n]
JStr(s) == [t |-> "string", s |-> s]
JArr(a) == [t |-> "array", a |-> a]
JObj(p) == [t |-> "object", p |-> p]

\* ToBoolean: undefined, null, 0 and "" are falsy, everything else is truthy
Truthy(v) == v \notin {Undefined, JNull, JNum(0), JStr(<<>>)}

\* typeof v === "object"
TypeofObject(v) == v.t \in {"object", "array", "null"}

\* typeof v === "string"
TypeofString(v) == v.t = "string"

\* v[name] and v?.[name] for a named (non-index) property; the code reads
\* v[name] only of values it has found truthy
Get(v, name) ==
  IF v.t = "object" /\ name \in DOMAIN v.p THEN v.p[name] ELSE Undefined

\* Characters.  A string is a sequence of UTF-16 code units; a code unit is
\* written as the one-character string for printable ASCII (the grave accent
\* excepted) and for tab, line feed, form feed and carriage return, and as
\* "\\uXXXX" (four hexadecimal digits) for every other code unit.
AsciiUpper ==      \* U+0020 to U+005F
  << " ", "!", "\"", "#", "$", "%", "&", "'", "(", ")", "*", "+", ",", "-",
     ".", "/", "0", "1", "2", "3", "4", "5", "6", "7", "8", "9", ":", ";",
     "<", "=", ">", "?", "@", "A", "B", "C", "D", "E", "F", "G", "H", "I",
     "J", "K", "L", "M", "N", "O", "P", "Q", "R", "S", "T", "U", "V", "W",
     "X", "Y", "Z", "[", "\\", "]", "^", "_" >>
AsciiLower ==      \* U+0061 to U+007E
  << "a", "b", "c", "d", "e", "f", "g", "h", "i", "j", "k", "l", "m", "n",
     "o", "p", "q", "r", "s", "t", "u", "v", "w", "x", "y", "z", "{", "|",
     "}", "~" >>

\* the code of a character written as itself
CharCode ==
  [c \in {AsciiUpper[i] : i \in 1..Len(AsciiUpper)} |->
     31 + (CHOOSE i \in 1..Len(AsciiUpper) : AsciiUpper[i] = c)]
    @@ [c \in {AsciiLower[i] : i \in 1..Len(AsciiLower)} |->
          96 + (CHOOSE i \in 1..Len(AsciiLower) : AsciiLower[i] = c)]
    @@ ("\t" :> 9) @@ ("\n" :> 10) @@ ("\f" :> 12) @@ ("\r" :> 13)

DigitOf ==
  ("0" :> 0) @@ ("1" :> 1) @@ ("2" :> 2) @@ ("3" :> 3) @@ ("4" :> 4) @@
  ("5" :> 5) @@ ("6" :> 6) @@ ("7" :> 7) @@ ("8" :> 8) @@ ("9" :> 9) @@
  ("a" :> 10) @@ ("b" :> 11) @@ ("c" :> 12) @@ ("d" :> 13) @@ ("e" :> 14) @@
  ("f" :> 15) @@ ("A" :> 10) @@ ("B" :> 11) @@ ("C" :> 12) @@ ("D" :> 13) @@
  ("E" :> 14) @@ ("F" :> 15)

\* c is written "\\uXXXX"
Escaped(c) == Len(c) = 6 /\ SubSeq(c, 1, 2) = "\\u"

\* the code unit a character stands for, 0 .. 65535
CodeUnit(c) ==
  IF Escaped(c)
  THEN 4096 * DigitOf[SubSeq(c, 3, 3)] + 256 * DigitOf[SubSeq(c, 4, 4)]
       + 16 * DigitOf[SubSeq(c, 5, 5)] + DigitOf[SubSeq(c, 6, 6)]
  ELSE CharCode[c]

\* WhiteSpace and LineTerminator, as trim and ToNumber strip them: tab, line
\* feed, vertical tab, form feed, carriage return, space, U+00A0, U+1680,
\* U+2000 to U+200A, U+2028, U+2029, U+202F, U+205F, U+3000, U+FEFF
Whitespace ==
  {9, 10, 11, 12, 13, 32, 160, 5760} \cup (8192..8202)
    \cup {8232, 8233, 8239, 8287, 12288, 65279}

IsWhitespace(c) == \E u \in {c} : CodeUnit(u) \in Whitespace

\* the first index of s that holds no whitespace, Len(s) + 1 when none does
FirstBlack(s) ==
  CHOOSE i \in 1..(Len(s) + 1) :
    /\ \A j \in 1..(i - 1) : IsWhitespace(s[j])
    /\ i <= Len(s) => ~IsWhitespace(s[i])

\* the last index of s that holds no whitespace, 0 when none does
LastBlack(s) ==
  CHOOSE i \in 0..Len(s) :
    /\ \A j \in (i + 1)..Len(s) : IsWhitespace(s[j])
    /\ i >= 1 => ~IsWhitespace(s[i])

TrimStart(s) == CHOOSE r \in {SubSeq(u, FirstBlack(u), Len(u)) : u \in {s}} : TRUE

TrimEnd(s) == CHOOSE r \in {SubSeq(u, 1, LastBlack(u)) : u \in {s}} : TRUE

\* String.prototype.trim
Trim(s) == TrimEnd(TrimStart(s))

\* ToNumber gives a number or NaN.  Of a number the model keeps what line 57
\* needs, an integer n: for every (integer) reading t of the clock, the
\* double that t - ts evaluates to exceeds CACHE_TTL_MS exactly when t - n
\* does.  The string is converted to the nearest double y, and t - y is
\* rounded to the nearest double again (ties to even), which exceeds
\* CACHE_TTL_MS exactly when t - y > CACHE_TTL_MS + 2^-29; so n is the
\* greatest integer that is at most y + 2^-29.  Numbers are cut at Clip,
\* which is beyond every reading of the clock (Infinity is Clip).
NaN == [nan |-> TRUE]
Num(n) == [nan |-> FALSE, n |-> n]
Clip == 1000000000

IsDigit(c, radix) == c \in DOMAIN DigitOf /\ DigitOf[c] < radix
AllDigits(s, radix) == \A i \in 1..Len(s) : IsDigit(s[i], radix)

Take(s, n) == SubSeq(s, 1, n)
Drop(s, n) == SubSeq(s, n + 1, Len(s))

\* the value of the digits s after acc, cut at Clip
RECURSIVE RadixValue(_, _, _)
RadixValue(s, radix, acc) ==
  IF s = <<>> THEN acc
  ELSE RadixValue(Tail(s), radix,
                  IF acc >= Clip \div radix THEN Clip
                  ELSE acc * radix + DigitOf[Head(s)])

\* how many decimal digits s begins with
RECURSIVE LeadingDigits(_)
LeadingDigits(s) ==
  IF s # <<>> /\ IsDigit(Head(s), 10) THEN 1 + LeadingDigits(Tail(s)) ELSE 0

RECURSIVE StripZeros(_)
StripZeros(s) ==
  IF s # <<>> /\ Head(s) = "0" THEN StripZeros(Tail(s)) ELSE s

\* ExponentPart, or nothing, up to the end of the string: [ok, e]
Exponent(s) ==
  IF s = <<>> THEN [ok |-> TRUE, e |-> 0]
  ELSE IF Head(s) \notin {"e", "E"} THEN [ok |-> FALSE, e |-> 0]
  ELSE LET r == Tail(s)
           signed == r # <<>> /\ Head(r) \in {"+", "-"}
           ds == IF signed THEN Tail(r) ELSE r
           z == StripZeros(ds)
           m == IF Len(z) > 4 THEN 10000 ELSE RadixValue(z, 10, 0) IN
    IF ds = <<>> \/ ~AllDigits(ds, 10) THEN [ok |-> FALSE, e |-> 0]
    ELSE [ok |-> TRUE, e |-> IF signed /\ Head(r) = "-" THEN 0 - m ELSE m]

\* Fractions 0.f, f a sequence of decimal digits (numbers 0 .. 9)
DigitsOf(s) == [i \in 1..Len(s) |-> DigitOf[s[i]]]
Zeros(n) == [i \in 1..n |-> 0]
PadTo(f, n) == f \o Zeros(n - Len(f))

\* f without the zeros it ends in
DropLastZeros(f) ==
  SubSeq(f, 1, CHOOSE n \in 0..Len(f) :
                 /\ \A i \in (n + 1)..Len(f) : f[i] = 0
                 /\ n > 0 => f[n] # 0)

\* half of 0.f: the remainder of a digit is carried into the next one
Half(f) ==
  [i \in 1..(Len(f) + (f[Len(f)] % 2)) |->
     (10 * (IF i = 1 THEN 0 ELSE f[i - 1] % 2)
      + (IF i > Len(f) THEN 0 ELSE f[i])) \div 2]

\* 0.f halved k times
RECURSIVE Halved(_, _)
Halved(f, k) ==
  IF k = 0 THEN f
  ELSE LET h == <<>> \o Half(f) IN
       IF h = <<>> THEN h ELSE Halved(h, k - 1)

\* 2^-k, k >= 1
TwoToMinus(k) == Halved(<<5>>, k - 1)

\* 0.a + 0.b, which is below 1: a carry enters digit i when a digit after it
\* overflows and the digits in between add up to 9
FracSum(a, b) ==
  LET n == IF Len(a) > Len(b) THEN Len(a) ELSE Len(b)
      x == PadTo(a, n)
      y == PadTo(b, n)
      carry(i) == \E k \in (i + 1)..n :
                    /\ x[k] + y[k] > 9
                    /\ \A m \in (i + 1)..(k - 1) : x[m] + y[m] = 9 IN
  [i \in 1..n |-> (x[i] + y[i] + (IF carry(i) THEN 1 ELSE 0)) % 10]

\* 1 - 0.f, for f that ends in a digit other than 0
OneMinus(f) ==
  [i \in 1..Len(f) |-> IF i = Len(f) THEN 10 - f[i] ELSE 9 - f[i]]

\* -1, 0, 1: 0.a is below, equal to, above 0.b; the first digit in which
\* they differ decides
FracCompare(a, b) ==
  LET n == IF Len(a) > Len(b) THEN Len(a) ELSE Len(b)
      x == PadTo(a, n)
      y == PadTo(b, n)
      diff == {i \in 1..n : x[i] # y[i]} IN
  IF diff = {} THEN 0
  ELSE LET i == CHOOSE k \in diff : \A m \in diff : k <= m IN
       IF x[i] < y[i] THEN 0 - 1 ELSE 1

\* the number of binary digits of w
RECURSIVE BitLength(_)
BitLength(w) == IF w = 0 THEN 0 ELSE 1 + BitLength(w \div 2)

\* A number of magnitude W + 0.g (W an integer of j binary digits, g not 0)
\* lies between two integers; n is the one nearer to 0 when the number is
\* negative and the one farther from 0 when it is positive exactly when the
\* distance to that integer is within Reach[j]: the 2^-29 of the rounded
\* subtraction and, where doubles are spaced more finely than that, half the
\* spacing 2^(j-53) of the doubles next to the integer; where they are
\* spaced more widely, half the spacing alone.  At j = 24 the distance has
\* to be below Reach[j] (the tie goes to the even neighbour, away from the
\* integer).  Next to 0 on the negative side the spacing is 2^-81.
MaxBits == 30
Reach ==
  [j \in 0..MaxBits |->
     IF j <= 24 THEN FracSum(TwoToMinus(29), TwoToMinus(54 - j))
     ELSE TwoToMinus(54 - j)]
ReachBelowZero == FracSum(TwoToMinus(29), TwoToMinus(82))

\* StrUnsignedDecimalLiteral: whether s is one, its digits d without
\* leading zeros, and the number p of them that stand before the point once
\* the exponent is applied
Literal(s) ==
  LET ni == LeadingDigits(s)
      r1 == Drop(s, ni)
      dot == r1 # <<>> /\ Head(r1) = "."
      nf == IF dot THEN LeadingDigits(Tail(r1)) ELSE 0
      r2 == IF dot THEN Drop(Tail(r1), nf) ELSE r1
      ex == Exponent(r2)
      d == StripZeros(Take(s, ni) \o (IF dot THEN Take(Tail(r1), nf) ELSE <<>>)) IN
  [ok |-> ni + nf # 0 /\ ex.ok, d |-> d, p |-> Len(d) + ex.e - nf]

\* the whole part of the number with digits d, p of them before the point
WholePart(d, p) ==
  IF p <= 0 THEN 0
  ELSE IF p <= Len(d) THEN RadixValue(Take(d, p), 10, 0)
  ELSE RadixValue(d \o [i \in 1..(p - Len(d)) |-> "0"], 10, 0)

\* its fraction digits, without trailing zeros
FractionPart(d, p) ==
  DropLastZeros(
    IF p >= Len(d) THEN <<>>
    ELSE IF p > 0 THEN DigitsOf(Drop(d, p))
    ELSE Zeros(IF 0 - p > 100 THEN 100 ELSE 0 - p) \o DigitsOf(d))

\* whether whole + 0.g (negated when neg) is within reach of the integer
\* above it (below it when neg)
Near(whole, g, neg) ==
  LET j == BitLength(whole)
      c == FracCompare(IF neg THEN g ELSE OneMinus(g),
                       IF neg /\ whole = 0 THEN ReachBelowZero ELSE Reach[j]) IN
  IF j = 24 THEN c < 0 ELSE c <= 0

Rounded(whole, g, neg) ==
  IF g = <<>> THEN Num(IF neg THEN 0 - whole ELSE whole)
  ELSE IF neg THEN Num(IF Near(whole, g, neg) THEN 0 - whole ELSE 0 - (whole + 1))
  ELSE Num(IF Near(whole, g, neg) THEN whole + 1 ELSE whole)

\* StrUnsignedDecimalLiteral with the sign that preceded it
Decimal(s, neg) ==
  IF s = <<"I", "n", "f", "i", "n", "i", "t", "y">>
  THEN Num(IF neg THEN 0 - Clip ELSE Clip)
  ELSE
    LET l == Literal(s) IN
    IF ~l.ok THEN NaN
    ELSE IF l.d = <<>> THEN Num(0)
    ELSE IF l.p > 9 THEN Num(IF neg THEN 0 - Clip ELSE Clip)
    ELSE Rounded(WholePart(l.d, l.p), FractionPart(l.d, l.p), neg)

\* StringToNumber: white space stripped; the empty string is 0; 0x, 0o, 0b
\* literals; otherwise a signed decimal literal; anything else is NaN
StringToNumber(s) ==
  LET t == Trim(s) IN
  IF t = <<>> THEN Num(0)
  ELSE IF Len(t) >= 2 /\ t[1] = "0" /\ t[2] \in {"x", "X", "o", "O", "b", "B"}
  THEN LET radix == IF t[2] \in {"x", "X"} THEN 16
                    ELSE IF t[2] \in {"o", "O"} THEN 8 ELSE 2
           ds == Drop(t, 2) IN
       IF ds # <<>> /\ AllDigits(ds, radix)
       THEN Num(RadixValue(ds, radix, 0)) ELSE NaN
  ELSE IF Head(t) \in {"+", "-"} THEN Decimal(Tail(t), Head(t) = "-")
  ELSE Decimal(t, FALSE)

\* ToNumber: an array goes through its string, which is "" for [], the
\* string of the element for [x] ("" for null and undefined), and has a
\* comma otherwise; a plain object goes through "[object Object]"
RECURSIVE ToNumber(_)
ToNumber(v) ==
  CASE v.t = "number" -> Num(v.n)
    [] v.t = "string" -> StringToNumber(v.s)
    [] v.t = "null" -> Num(0)
    [] v.t = "array" ->
         IF Len(v.a) = 0 THEN Num(0)
         ELSE IF Len(v.a) > 1 THEN NaN
         ELSE IF v.a[1].t \in {"null", "undefined"} THEN Num(0)
         ELSE IF v.a[1].t \in {"number", "string", "array"}
         THEN ToNumber(v.a[1])
         ELSE NaN
    [] OTHER -> NaN

\* variants: the boundary counted as expired; nothing ever expires
OlderThanTTLBoundary(t, ts) ==
  LET x == ToNumber(ts) IN ~x.nan /\ t - x.n >= CACHE_TTL_MS

OlderThanTTLNever(t, ts) == FALSE

\* Date.now() - ts > CACHE_TTL_MS: the subtraction converts ts by ToNumber,
\* and every comparison with NaN is false
OlderThanTTL(t, ts) ==
  LET x == ToNumber(ts) IN ~x.nan /\ t - x.n > CACHE_TTL_MS

-----------------------------------------------------------------------------
(* localStorage items.  getItem gives null for a missing key and a string   *)
(* otherwise; a string is either the JSON text of a value or other text.    *)

NoItem == [k |-> "null"]
Text(s) == [k |-> "text", s |-> s]       \* a string that is not JSON
JsonText(v) == [k |-> "json", v |-> v]   \* the JSON text of v

TruthyItem(raw) == raw.k = "json" \/ (raw.k = "text" /\ raw.s # "")

\* JSON.stringify of a value that came out of JSON.parse or is built from
\* such values and integers
JSONstringify(v) == JsonText(v)

\* JSON.parse: [ok, v]; ok = FALSE when it throws SyntaxError
JSONparse(raw) ==
  IF raw.k = "json" THEN [ok |-> TRUE, v |-> raw.v]
  ELSE [ok |-> FALSE, v |-> Undefined]

\* Error objects; id is the number of the request of the current call that
\* raised it (the identity of the object), 0 when no request did
Err(name, status, id) ==
  [t |-> "error", name |-> name, status |-> status, id |-> id]

\* variant: the exception of JSON.parse is not caught
safeJsonParseNoCatch(raw) ==
  LET r == JSONparse(raw) IN
  [threw |-> ~r.ok, v |-> IF r.ok THEN r.v ELSE Undefined]

\* safeJsonParse: [threw, v]; the catch clause turns a throw into null
safeJsonParse(raw) ==
  LET r == JSONparse(raw) IN
  [threw |-> FALSE, v |-> IF r.ok THEN r.v ELSE JNull]

\* variant: one key for every repository
cacheKeyShared(repo) == <<CACHE_PREFIX, "twbs/bootstrap">>

cacheKey(repo) == <<CACHE_PREFIX, repo>>

getItem(st, key) == st[key]

\* getCached at time t: [threw, v]
getCached(st, repo, t) ==
  LET raw == getItem(st, cacheKey(repo)) IN
  IF ~TruthyItem(raw) THEN [threw |-> FALSE, v |-> JNull]
  ELSE LET parsed == safeJsonParse(raw)
           obj == parsed.v IN
    IF parsed.threw THEN [threw |-> TRUE, v |-> Undefined]
    ELSE IF ~Truthy(obj) \/ ~TypeofObject(obj) THEN [threw |-> FALSE, v |-> JNull]
    ELSE LET ts == Get(obj, "ts")
             data == Get(obj, "data") IN
      IF ~Truthy(ts) \/ ~Truthy(data) THEN [threw |-> FALSE, v |-> JNull]
      ELSE IF OlderThanTTL(t, ts) THEN [threw |-> FALSE, v |-> JNull]
      ELSE [threw |-> FALSE, v |-> data]

\* setItem either stores the string or throws (quota, access); accepted says
\* which.
setItem(st, key, value, accepted) ==
  [ok |-> accepted,
   st |-> IF accepted THEN [st EXCEPT ![key] = value] ELSE st]

\* variant: the exception of setItem is not caught
setCachedNoCatch(st, repo, data, t, accepted) ==
  LET r == setItem(st, cacheKey(repo),
                   JSONstringify(JObj([ts |-> JNum(t), data |-> data])),
                   accepted) IN
  [st |-> r.st, threw |-> ~r.ok]

\* setCached: the store afterwards, and whether an exception leaves it
setCached(st, repo, data, t, accepted) ==
  LET r == setItem(st, cacheKey(repo),
                   JSONstringify(JObj([ts |-> JNum(t), data |-> data])),
                   accepted) IN
  [st |-> r.st, threw |-> FALSE]

\* lines 134-136: the stale fallback, [threw, v]; v is Undefined when there
\* is nothing to fall back to
staleRead(st, repo) ==
  LET raw == getItem(st, cacheKey(repo))
      parsed == IF TruthyItem(raw) THEN safeJsonParse(raw)
                ELSE [threw |-> FALSE, v |-> JNull]
      stale == parsed.v IN
  IF parsed.threw THEN [threw |-> TRUE, v |-> Undefined]
  ELSE IF Truthy(stale) /\ Truthy(Get(stale, "data"))
  THEN [threw |-> FALSE, v |-> Get(stale, "data")]
  ELSE [threw |-> FALSE, v |-> Undefined]

-----------------------------------------------------------------------------
(* Strings *)

Surrogate == "\\uD800"     \* a lone surrogate code unit
\* variant: /^v+/i, every leading v goes
RECURSIVE StripLeadingVAll(_)
StripLeadingVAll(s) ==
  IF s # <<>> /\ Head(s) \in {"v", "V"} THEN StripLeadingVAll(Tail(s)) ELSE s

\* s.replace(/^v/i, "")
StripLeadingV(s) ==
  IF s # <<>> /\ Head(s) \in {"v", "V"} THEN Tail(s) ELSE s

\* the code units encodeURIComponent keeps: A-Z a-z 0-9 - _ . ! ~ * ' ( )
Unreserved ==
  (65..90) \cup (97..122) \cup (48..57) \cup {45, 95, 46, 33, 126, 42, 39, 40, 41}

HexDigits ==
  <<"0", "1", "2", "3", "4", "5", "6", "7", "8", "9", "A", "B", "C", "D", "E", "F">>

\* %XX for one byte
Escape(byte) == <<"%", HexDigits[(byte \div 16) + 1], HexDigits[(byte % 16) + 1]>>

\* the escaped bytes of the UTF-8 encoding of the code point cp
Utf8(cp) ==
  IF cp < 128 THEN Escape(cp)
  ELSE IF cp < 2048
  THEN Escape(192 + (cp \div 64)) \o Escape(128 + (cp % 64))
  ELSE IF cp < 65536
  THEN Escape(224 + (cp \div 4096)) \o Escape(128 + ((cp \div 64) % 64))
       \o Escape(128 + (cp % 64))
  ELSE Escape(240 + (cp \div 262144)) \o Escape(128 + ((cp \div 4096) % 64))
       \o Escape(128 + ((cp \div 64) % 64)) \o Escape(128 + (cp % 64))

IsHighSurrogate(u) == u \in 55296..56319     \* U+D800 to U+DBFF
IsLowSurrogate(u) == u \in 56320..57343      \* U+DC00 to U+DFFF

\* every high surrogate is followed by a low one, and no low one stands alone
RECURSIVE WellFormed(_)
WellFormed(s) ==
  IF s = <<>> THEN TRUE
  ELSE LET u == CodeUnit(Head(s)) IN
    IF IsHighSurrogate(u)
    THEN /\ Len(s) >= 2
         /\ IsLowSurrogate(CodeUnit(s[2]))
         /\ WellFormed(Tail(Tail(s)))
    ELSE ~IsLowSurrogate(u) /\ WellFormed(Tail(s))

\* the encoding of a well-formed string: an unreserved code unit stays, every
\* other code point (a surrogate pair is one code point) is escaped
RECURSIVE PercentEncode(_)
PercentEncode(s) ==
  IF s = <<>> THEN <<>>
  ELSE LET u == CodeUnit(Head(s)) IN
    IF u \in Unreserved THEN <<Head(s)>> \o PercentEncode(Tail(s))
    ELSE IF IsHighSurrogate(u)
    THEN Utf8(65536 + ((u - 55296) * 1024) + (CodeUnit(s[2]) - 56320))
         \o PercentEncode(Tail(Tail(s)))
    ELSE Utf8(u) \o PercentEncode(Tail(s))

\* encodeURIComponent: [ok, s]; ok = FALSE when it throws URIError
encodeURIComponent(s) ==
  IF WellFormed(s) THEN [ok |-> TRUE, s |-> PercentEncode(s)]
  ELSE [ok |-> FALSE, s |-> <<>>]

\* a || b
Or(a, b) == IF Truthy(a) THEN a ELSE b

normalizeVersion(release, prefer, stripLeadingV) ==
  IF ~Truthy(release) THEN JNull
  ELSE LET v == Or(Or(Or(Get(release, prefer), Get(release, "tag_name")),
                      Get(release, "name")), JNull) IN
    IF ~TypeofString(v) THEN JNull
    ELSE LET t == Trim(v.s) IN
      JStr(IF stripLeadingV THEN StripLeadingV(t) ELSE t)

\* variant: the last asset is taken
getFirstAssetUrlLast(release) ==
  LET as == Get(release, "assets")
      assets == IF as.t = "array" THEN as.a ELSE <<>>
      first == IF Len(assets) >= 1 THEN assets[Len(assets)] ELSE Undefined
      url == Get(first, "browser_download_url") IN
  IF TypeofString(url) /\ Len(url.s) # 0 THEN url ELSE JNull

getFirstAssetUrl(release) ==
  LET as == Get(release, "assets")
      assets == IF as.t = "array" THEN as.a ELSE <<>>
      first == IF Len(assets) >= 1 THEN assets[1] ELSE Undefined
      url == Get(first, "browser_download_url") IN
  IF TypeofString(url) /\ Len(url.s) # 0 THEN url ELSE JNull

-----------------------------------------------------------------------------
(* The page *)

Selectors == {".bv", ".bdu-dist", ".bdu-src", ".jv", ".nv", ".sv"}
Blank == [t |-> "blank"]     \* nothing written since the page was loaded

\* text == null
IsNullish(v) == v.t \in {"null", "undefined"}

\* String(text) of a string is that string
setText(sk, selector, text) ==
  IF IsNullish(text) THEN sk ELSE [sk EXCEPT ![selector] = text]

setAttr(sk, selector, value) ==
  IF IsNullish(value) THEN sk ELSE [sk EXCEPT ![selector] = value]

-----------------------------------------------------------------------------
(* The network *)

\* Release payloads the upstream may answer with, and what the store may hold
RelA ==
  JObj([tag_name |-> JStr(<<"v", "5">>), name |-> JStr(<<"v", "5">>),
        assets |-> JArr(<<JObj([browser_download_url |-> JStr(<<"u">>)])>>)])
RelB ==
  JObj([tag_name |-> JStr(<<Surrogate>>), name |-> JNull, assets |-> JArr(<<>>)])
RelOld ==
  JObj([tag_name |-> JStr(<<"\\u00A0", "V", "3", "+">>),
        name |-> JStr(<<"V", "3", " ">>)])

\* What res.json() may decode a 2xx body to
Bodies == {RelA, RelB, JNull}

\* Non-2xx statuses
Statuses == {403, 429, 404}

\* How a request that is not cut by the timer ends: a 2xx response with a
\* JSON body, a 2xx response whose body is not JSON, a non-2xx response
Responses ==
  [kind : {"json"}, body : Bodies] \cup {[kind |-> "badjson"]}
    \cup [kind : {"status"}, status : Statuses]

\* line 79: fetch resolves when the status line and the headers are there;
\* the body is read afterwards (res.text(), line 92; res.json(), line 99)
NoRes == [ok |-> FALSE, status |-> 0]
Heads == {[ok |-> TRUE, status |-> 200]} \cup [ok : {FALSE}, status : Statuses]
HeadOf(resp) ==
  IF resp.kind = "status" THEN [ok |-> FALSE, status |-> resp.status]
  ELSE [ok |-> TRUE, status |-> 200]

\* line 138: new Error("Unknown error fetching release data")
UnknownError == Err("Error", Undefined, 0)

\* fetchWithTimeout once the response resp is there: [ok, data, err]
fetchWithTimeout(resp, id) ==
  CASE resp.kind = "status" ->
         [ok |-> FALSE, data |-> Undefined,
          err |-> Err("Error", JNum(resp.status), id)]
    [] resp.kind = "badjson" ->
         [ok |-> FALSE, data |-> Undefined,
          err |-> Err("SyntaxError", Undefined, id)]
    [] OTHER ->
         [ok |-> TRUE, data |-> resp.body, err |-> Undefined]

\* what JSON.parse throws, were it not caught
ParseError == Err("SyntaxError", Undefined, 0)

\* line 101: the pending state of the timer after the finally clause
clearTimeout(t) == FALSE

\* controller.abort() makes fetch reject
AbortError(id) == Err("AbortError", Undefined, id)

\* line 76, controller.abort(), while fetchWithTimeout is pending: what it
\* throws.  fetch (line 79) and res.json() (line 99) reject with the abort
\* error; the rejection of res.text() is caught on line 92, and lines 93-96
\* throw the error of the status
abort(head, id) ==
  IF head # NoRes /\ ~head.ok THEN Err("Error", JNum(head.status), id)
  ELSE AbortError(id)

\* what reaches the catch clause when setCached lets an exception out
StorageError(id) == Err("QuotaExceededError", Undefined, id)

\* variant: only 429 stops the retries
isRateLimitedOnly429(err) ==
  Truthy(err) /\ err.status = JNum(429)

\* err && (err.status === 403 || err.status === 429)
isRateLimited(err) ==
  Truthy(err) /\ (err.status = JNum(403) \/ err.status = JNum(429))

\* 400 + attempt * 500
Backoff(a) == 400 + a * 500

\* variant: one iteration fewer
LoopContinuesStrict(a) == a < MAX_RETRIES

\* attempt <= MAX_RETRIES
LoopContinues(a) == a <= MAX_RETRIES

\* variant: a wait follows the final attempt too
SleepsAfterFinal(a) == a <= MAX_RETRIES

\* attempt < MAX_RETRIES
SleepsAfter(a) == a < MAX_RETRIES

\* variant: the first error is kept
RecordErrFirst(old, err) == IF Truthy(old) THEN old ELSE err

\* line 120: lastErr = err
RecordErr(old, err) == err

\* variant: no stale fallback
ExitNoFallback(st, repo, lerr) ==
  [st |-> "error", v |-> Or(lerr, UnknownError)]

\* lines 132-138: how the call settles once the loop is left
Exit(st, repo, lerr) ==
  LET stale == staleRead(st, repo) IN
  IF stale.threw THEN [st |-> "error", v |-> ParseError]
  ELSE IF stale.v # Undefined THEN [st |-> "value", v |-> stale.v]
  ELSE [st |-> "error", v |-> Or(lerr, UnknownError)]

-----------------------------------------------------------------------------
(* run: the four pipelines, in the order of the code *)

Resources ==
  << [repo |-> "twbs/bootstrap", prefer |-> "name", strip |-> TRUE,
      sels |-> {".bv", ".bdu-dist", ".bdu-src"}],
     [repo |-> "jquery/jquery", prefer |-> "tag_name", strip |-> FALSE,
      sels |-> {".jv"}],
     [repo |-> "sindresorhus/modern-normalize", prefer |-> "tag_name",
      strip |-> TRUE, sels |-> {".nv"}],
     [repo |-> "Splidejs/splide", prefer |-> "name", strip |-> TRUE,
      sels |-> {".sv"}] >>

NumResources == Len(Resources)
Repos == {Resources[i].repo : i \in 1..NumResources}
Keys == {cacheKey(r) : r \in Repos}

ArchiveUrl(enc) ==
  JStr(<<"https://github.com/twbs/bootstrap/archive/">> \o enc \o <<".zip">>)

\* lines 171-186: the body of the Bootstrap try block, given what the await
\* produced: the page afterwards, and whether an exception leaves the block
BootstrapBody(r, sk) ==
  IF r.st = "error" THEN [sinks |-> sk, threw |-> TRUE]
  ELSE
    LET boot == r.v
        bv == normalizeVersion(boot, "name", TRUE)
        s1 == setText(sk, ".bv", bv)
        dist == getFirstAssetUrl(boot)
        s2 == IF Truthy(dist) THEN setAttr(s1, ".bdu-dist", dist) ELSE s1
        tag == Get(boot, "tag_name") IN
    IF TypeofString(tag) /\ Len(tag.s) # 0
    THEN LET enc == encodeURIComponent(tag.s) IN
         IF enc.ok
         THEN [sinks |-> setAttr(s2, ".bdu-src", ArchiveUrl(enc.s)),
               threw |-> FALSE]
         ELSE [sinks |-> s2, threw |-> TRUE]
    ELSE [sinks |-> s2, threw |-> FALSE]

\* lines 194-196, 203-205, 212-214: the body of the other try blocks
VersionBody(r, sk, selector, prefer, strip) ==
  IF r.st = "error" THEN [sinks |-> sk, threw |-> TRUE]
  ELSE [sinks |-> setText(sk, selector, normalizeVersion(r.v, prefer, strip)),
        threw |-> FALSE]

PipelineBody(i, r, sk) ==
  CASE i = 1 -> BootstrapBody(r, sk)
    [] i = 2 -> VersionBody(r, sk, ".jv", "tag_name", FALSE)
    [] i = 3 -> VersionBody(r, sk, ".nv", "tag_name", TRUE)
    [] OTHER -> VersionBody(r, sk, ".sv", "name", TRUE)

\* variant: run does not wait for a pending call
AwaitedNot(p) == p \in {"returned", "threw", "inflight", "sleeping"}

\* variant: run resumes only when the call returns a value
AwaitedReturnOnly(p) == p = "returned"

\* lines 171, 194, 203, 212: await resumes run once the call has settled
Awaited(p) == p \in {"returned", "threw"}

\* variant: the first pipeline is not wrapped
GuardedButFirst(i) == i # 1

\* the body of pipeline i is inside a try with an empty catch
Guarded(i) == TRUE

-----------------------------------------------------------------------------
(* State *)

NoRet == [st |-> "none", v |-> Undefined]
NoCall == [op |-> "none"]
BlankPage == [s \in Selectors |-> Blank]

\* a timestamp string: white space, then a number that is below 1 by less
\* than the subtraction of line 57 resolves
NearlyOne ==
  <<"\\u00A0", "0", ".", "9", "9", "9", "9", "9", "9", "9", "9", "9", "9", "9">>

\* What the store may hold for a key before the page is loaded
Entry(ts, data) == JsonText(JObj([ts |-> ts, data |-> data]))
SeedItems ==
  { Text(""), Text("{oops"),
    JsonText(JNull), JsonText(JNum(7)), JsonText(JArr(<<>>)),
    Entry(JNum(Start), RelOld), Entry(JNum(0), RelOld),
    Entry(JStr(<<"x">>), RelOld), Entry(JStr(NearlyOne), RelOld),
    Entry(JNum(Start), JNull),
    JsonText(JObj([data |-> RelOld])), JsonText(JObj([ts |-> JNum(Start)])) }

Init ==
  /\ \E k \in Keys, item \in SeedItems \cup {NoItem} :
       store = [x \in Keys |-> IF x = k THEN item ELSE NoItem]
  /\ now = Start
  /\ ri = 1
  /\ pc = "ready"
  /\ attempt = 0
  /\ lastErr = JNull
  /\ requests = 0
  /\ waits = <<>>
  /\ timer = FALSE
  /\ aborted = FALSE
  /\ res = NoRes
  /\ fetched = Undefined
  /\ wrote = "none"
  /\ ret = NoRet
  /\ sinks = BlankPage
  /\ fin = NoCall
  /\ fout = NoCall

Repo == Resources[ri].repo

-----------------------------------------------------------------------------
(* fetchLatestRelease *)

\* the loop is left (break, or its condition fails): lines 132-138
Leave(a, lerr, ab) ==
  LET e == Exit(store, Repo, lerr) IN
  /\ pc' = IF e.st = "value" THEN "returned" ELSE "threw"
  /\ ret' = e
  /\ attempt' = a
  /\ timer' = clearTimeout(timer)
  /\ aborted' = ab
  /\ UNCHANGED <<requests, waits>>

\* attempt++ was done, giving a: test the loop condition, and either call
\* fetchWithTimeout (which makes its controller, arms its timer and issues
\* the request) or leave; ab says whether the controller there was until now
\* has aborted
Iterate(a, lerr, ab) ==
  IF LoopContinues(a)
  THEN /\ pc' = "inflight"
       /\ attempt' = a
       /\ requests' = requests + 1
       /\ timer' = TRUE
       /\ aborted' = FALSE
       /\ UNCHANGED <<ret, waits>>
  ELSE Leave(a, lerr, ab)

\* the catch clause, lines 119-129
OnError(err, ab) ==
  LET le == RecordErr(lastErr, err) IN
  /\ lastErr' = le
  /\ res' = NoRes
  /\ IF isRateLimited(err) THEN Leave(attempt, le, ab)
     ELSE IF SleepsAfter(attempt)
     THEN /\ pc' = "sleeping"
          /\ waits' = Append(waits, Backoff(attempt))
          /\ timer' = clearTimeout(timer)
          /\ aborted' = ab
          /\ UNCHANGED <<attempt, requests, ret>>
     ELSE Iterate(attempt + 1, le, ab)

\* run reaches a pipeline and calls fetchLatestRelease: a fresh entry is
\* returned at once; otherwise the loop is entered and the first request
\* goes out
Call ==
  /\ pc = "ready"
  /\ LET cached == getCached(store, Repo, now) IN
     IF cached.threw
     THEN /\ pc' = "threw"
          /\ ret' = [st |-> "error", v |-> ParseError]
          /\ UNCHANGED <<attempt, lastErr, requests, waits, timer, aborted>>
     ELSE IF Truthy(cached.v)
     THEN /\ pc' = "returned"
          /\ ret' = [st |-> "value", v |-> cached.v]
          /\ UNCHANGED <<attempt, lastErr, requests, waits, timer, aborted>>
     ELSE /\ lastErr' = JNull
          /\ Iterate(0, JNull, aborted)
  /\ UNCHANGED <<store, now, ri, res, fetched, wrote, sinks, fin, fout>>

\* line 79: the status line and the headers of the response arrive, fetch
\* resolves, line 91 reads res.ok, and the body is awaited
FetchResolves ==
  /\ pc = "inflight"
  /\ res = NoRes
  /\ res' \in Heads
  /\ UNCHANGED <<store, now, ri, pc, attempt, lastErr, requests, waits, timer,
                 aborted, fetched, wrote, ret, sinks, fin, fout>>

\* the JSON body of a 2xx response has arrived: lines 99-101, 117-118
RespondOk ==
  /\ pc = "inflight"
  /\ \E resp \in Responses, accepted \in BOOLEAN :
       LET r == fetchWithTimeout(resp, requests)
           w == setCached(store, Repo, r.data, now, accepted) IN
       /\ res = HeadOf(resp)
       /\ r.ok
       /\ store' = w.st
       /\ fetched' = r.data
       /\ wrote' = IF accepted THEN "stored" ELSE "rejected"
       /\ IF w.threw THEN OnError(StorageError(requests), aborted)
          ELSE /\ pc' = "returned"
               /\ ret' = [st |-> "value", v |-> r.data]
               /\ timer' = clearTimeout(timer)
               /\ res' = NoRes
               /\ UNCHANGED <<attempt, lastErr, requests, waits, aborted>>
  /\ UNCHANGED <<now, ri, sinks, fin, fout>>

\* the body of a non-2xx response has arrived or could not be read, or the
\* body of a 2xx response is not JSON: lines 92-101, 119-129
RespondError ==
  /\ pc = "inflight"
  /\ \E resp \in Responses :
       LET r == fetchWithTimeout(resp, requests) IN
       /\ res = HeadOf(resp)
       /\ ~r.ok
       /\ OnError(r.err, aborted)
  /\ UNCHANGED <<store, now, ri, fetched, wrote, sinks, fin, fout>>

\* the timer of fetchWithTimeout fires while the response or its body is
\* awaited: line 76, then 92-96 or the rejection, 100-101, 119-129
TimerFires ==
  /\ pc = "inflight"
  /\ timer
  /\ OnError(abort(res, requests), TRUE)
  /\ UNCHANGED <<store, now, ri, fetched, wrote, sinks, fin, fout>>

\* the backoff sleep is over: line 127, then attempt++ and the loop test
SleepElapsed ==
  /\ pc = "sleeping"
  /\ Iterate(attempt + 1, lastErr, aborted)
  /\ UNCHANGED <<store, now, ri, lastErr, res, fetched, wrote, sinks, fin, fout>>

\* the await of run resumes: the rest of the try block, or its catch; then
\* the next pipeline
Deliver ==
  /\ Awaited(pc)
  /\ \E b \in {PipelineBody(ri, ret, sinks)} :
       /\ sinks' = b.sinks
       /\ IF b.threw /\ ~Guarded(ri)
          THEN pc' = "rejected" /\ ri' = ri
          ELSE /\ ri' = ri + 1
               /\ pc' = IF ri = NumResources THEN "done" ELSE "ready"
  /\ attempt' = 0
  /\ lastErr' = JNull
  /\ requests' = 0
  /\ waits' = <<>>
  /\ fetched' = Undefined
  /\ wrote' = "none"
  /\ ret' = NoRet
  /\ aborted' = FALSE
  /\ UNCHANGED <<store, now, timer, res, fin, fout>>

\* time passes.  Between the loading of the page and the start of run the
\* clock may have moved by any amount; while run is at work it moves by
\* milliseconds, at any point before run has finished: between the two reads
\* of Date.now() (lines 57 and 65) of one call and of successive calls.
Tick ==
  /\ pc \notin {"done", "rejected"}
  /\ \E d \in {1, CACHE_TTL_MS} :
       /\ d = 1 => (now - Start) % CACHE_TTL_MS < MaxTick
       /\ d = CACHE_TTL_MS =>
            (pc = "ready" /\ ri = 1
             /\ (now - Start) \div CACHE_TTL_MS < MaxJump)
       /\ now' = now + d
  /\ UNCHANGED <<store, ri, pc, attempt, lastErr, requests, waits,
                 timer, aborted, res, fetched, wrote, ret, sinks, fin, fout>>

Next ==
  \/ Call
  \/ FetchResolves
  \/ RespondOk
  \/ RespondError
  \/ TimerFires
  \/ SleepElapsed
  \/ Deliver
  \/ Tick

Spec == Init /\ [][Next]_vars

\* The page loads with an entry stored for the first repository and nothing
\* for the others; the entry is fresh until the clock has moved by more than
\* CACHE_TTL_MS.
InitLive ==
  /\ Init
  /\ store = [x \in Keys |->
                IF x = cacheKey(Resources[1].repo)
                THEN Entry(JNum(Start), RelOld) ELSE NoItem]

\* The event loop runs every continuation that is ready (Call, Deliver);
\* every request is answered or cut by its timer; every sleep elapses.
SpecLive ==
  /\ InitLive
  /\ [][Next]_vars
  /\ WF_vars(Call)
  /\ WF_vars(RespondOk \/ RespondError \/ TimerFires)
  /\ WF_vars(SleepElapsed)
  /\ WF_vars(Deliver)

-----------------------------------------------------------------------------
(* normalizeVersion and getFirstAssetUrl on their own: the arguments are     *)
(* drawn from bounded sets, the actions apply the functions.                 *)

MaxStrLen == 3    \* length of the strings in the fields of a release
MaxAssets == 2    \* length of the assets array

Chars == {"v", "V", "5", " ", "\\u00A0"}
Strings == UNION {[1..k -> Chars] : k \in 0..MaxStrLen}

\* what a field of a decoded release may hold; Undefined stands for a
\* property that is not there
FieldValues ==
  {Undefined, JNull, JNum(0), JNum(5), JObj(<<>>)} \cup {JStr(x) : x \in Strings}

\* the object with the properties of props that are there
MkObject(props) ==
  JObj([f \in {g \in DOMAIN props : props[g] # Undefined} |-> props[f]])

VersionReleases ==
  {MkObject([tag_name |-> tg, name |-> nm]) : tg \in FieldValues, nm \in FieldValues}
    \cup {JNull, Undefined, JStr(<<"v", "5">>)}

Assets ==
  { JNull, JNum(1), JObj(<<>>),
    JObj([browser_download_url |-> JStr(<<>>)]),
    JObj([browser_download_url |-> JNum(5)]),
    JObj([browser_download_url |-> JStr(<<"u">>)]),
    JObj([browser_download_url |-> JStr(<<"w">>)]) }

AssetReleases ==
  {MkObject([assets |-> a]) :
     a \in {Undefined, JNull, JObj(<<>>), JStr(<<"u">>)}
           \cup {JArr(q) : q \in UNION {[1..k -> Assets] : k \in 0..MaxAssets}}}
    \cup {JNull, Undefined}

PureArgs ==
  [op : {"version"}, release : VersionReleases,
   prefer : {"tag_name", "name"}, strip : BOOLEAN]
    \cup [op : {"asset"}, release : AssetReleases]

InitPure ==
  /\ store = [x \in Keys |-> NoItem]
  /\ now = Start
  /\ ri = 1
  /\ pc = "ready"
  /\ attempt = 0
  /\ lastErr = JNull
  /\ requests = 0
  /\ waits = <<>>
  /\ timer = FALSE
  /\ aborted = FALSE
  /\ res = NoRes
  /\ fetched = Undefined
  /\ wrote = "none"
  /\ ret = NoRet
  /\ sinks = BlankPage
  /\ fin \in PureArgs
  /\ fout = NoCall

\* normalizeVersion(release, { prefer, stripLeadingV })
ApplyVersion ==
  /\ fin.op = "version"
  /\ fout = NoCall
  /\ fout' = [op |-> "version",
              v |-> normalizeVersion(fin.release, fin.prefer, fin.strip)]
  /\ UNCHANGED <<store, now, ri, pc, attempt, lastErr, requests, waits,
                 timer, aborted, res, fetched, wrote, ret, sinks, fin>>

\* line 157 once more, on a version that was stripped
StripAgain ==
  /\ fout.op = "version"
  /\ fin.strip
  /\ TypeofString(fout.v)
  /\ fout' = [op |-> "restrip", first |-> fout.v,
              v |-> JStr(StripLeadingV(fout.v.s))]
  /\ UNCHANGED <<store, now, ri, pc, attempt, lastErr, requests, waits,
                 timer, aborted, res, fetched, wrote, ret, sinks, fin>>

\* getFirstAssetUrl(release)
ApplyAsset ==
  /\ fin.op = "asset"
  /\ fout = NoCall
  /\ fout' = [op |-> "asset", v |-> getFirstAssetUrl(fin.release)]
  /\ UNCHANGED <<store, now, ri, pc, attempt, lastErr, requests, waits,
                 timer, aborted, res, fetched, wrote, ret, sinks, fin>>

NextPure ==
  \/ ApplyVersion
  \/ StripAgain
  \/ ApplyAsset

SpecPure == InitPure /\ [][NextPure]_vars

-----------------------------------------------------------------------------
(* What the properties speak about *)

\* the item stored for the resource being handled
Item == getItem(store, cacheKey(Repo))

StoredValue(raw) == IF raw.k = "json" THEN raw.v ELSE Undefined
Timestamp(raw) == Get(StoredValue(raw), "ts")
Payload(raw) == Get(StoredValue(raw), "data")

\* a structurally valid entry: a numeric timestamp and a release record
ValidEntry(raw) == Timestamp(raw).t = "number" /\ Payload(raw).t = "object"
Age(raw) == now - Timestamp(raw).n

\* nothing that could serve as a payload is stored
NoPayload(raw) == IsNullish(Payload(raw))

\* missing, unparseable, not an object, or without timestamp or payload
Corrupt(raw) ==
  \/ raw = NoItem
  \/ raw.k = "text"
  \/ StoredValue(raw).t # "object"
  \/ IsNullish(Timestamp(raw))
  \/ IsNullish(Payload(raw))

Settled == pc \in {"returned", "threw"}

\* the current call went to the network and no attempt produced a payload
AllAttemptsFailed == Settled /\ requests > 0 /\ fetched = Undefined

RateLimitStatus(err) == err.status \in {JNum(403), JNum(429)}

\* fetchLatestRelease is entered in this step
CallStep == pc = "ready" /\ pc' # "ready"

-----------------------------------------------------------------------------
(* Properties *)

\* C1  Cache freshness: a call that finds a structurally valid entry with
\* now - ts <= CACHE_TTL_MS (the boundary included) returns the payload of
\* that entry and issues no network request.
CacheFreshness ==
  [][ (CallStep /\ ValidEntry(Item) /\ Age(Item) <= CACHE_TTL_MS)
        => /\ pc' = "returned"
           /\ ret' = [st |-> "value", v |-> Payload(Item)]
           /\ requests' = 0
           /\ store' = store ]_vars

CacheFreshnessWitness ==
  /\ pc = "returned"
  /\ requests = 0
  /\ ValidEntry(Item)
  /\ Age(Item) = CACHE_TTL_MS
  /\ ret.v = Payload(Item)

\* C2  Cache expiry: a call that finds an entry with now - ts > CACHE_TTL_MS
\* does not return it at once but issues a request; the entry stays in the
\* store while the attempts fail, and when all of them have failed the call
\* returns its payload.
CacheExpiry ==
  [][ /\ (CallStep /\ ValidEntry(Item) /\ Age(Item) > CACHE_TTL_MS)
        => (pc' = "inflight" /\ requests' = 1 /\ store' = store)
      /\ (pc \in {"inflight", "sleeping"} /\ fetched' = Undefined
          /\ ValidEntry(Item) /\ Age(Item) > CACHE_TTL_MS)
        => /\ store' = store
           /\ AllAttemptsFailed'
                => (pc' = "returned"
                    /\ ret' = [st |-> "value", v |-> Payload(Item)]) ]_vars

CacheExpiryWitness ==
  /\ AllAttemptsFailed
  /\ ValidEntry(Item)
  /\ Age(Item) > CACHE_TTL_MS
  /\ pc = "returned"
  /\ ret.v = Payload(Item)

\* C3  Retry bound: a call whose attempts all fail with an error other than
\* HTTP 403/429 makes exactly 1 + MAX_RETRIES = 3 network attempts; no call
\* makes more.
RetryBound ==
  /\ requests <= 1 + MAX_RETRIES
  /\ (AllAttemptsFailed /\ ~RateLimitStatus(lastErr))
       => (requests = 1 + MAX_RETRIES /\ requests = 3)

RetryBoundWitness ==
  /\ AllAttemptsFailed
  /\ requests = 3
  /\ lastErr.name = "AbortError"
  /\ lastErr.status = Undefined
  /\ pc = "threw"

\* C4  Rate-limit short-circuit: once an attempt has failed with 403 or 429
\* the call is over: no request follows that attempt and no backoff wait is
\* started after it, at whatever attempt index it happens.
RateLimitShortCircuit ==
  (lastErr # JNull /\ RateLimitStatus(lastErr))
    => /\ Settled
       /\ requests = lastErr.id
       /\ Len(waits) = lastErr.id - 1

RateLimitShortCircuitWitness ==
  /\ lastErr # JNull
  /\ lastErr.status = JNum(403)
  /\ lastErr.id = 2
  /\ attempt = 1
  /\ Settled

\* C5  Stale fallback: when every live attempt of a call has failed (the
\* retries are used up, or a 403/429 stopped them) and a structurally valid
\* entry of any age is stored for the key, the call returns the payload of
\* that entry.
StaleFallback ==
  (AllAttemptsFailed /\ ValidEntry(Item))
    => (pc = "returned" /\ ret = [st |-> "value", v |-> Payload(Item)])

StaleFallbackWitness ==
  /\ AllAttemptsFailed
  /\ ValidEntry(Item)
  /\ requests = 1
  /\ lastErr.status = JNum(429)
  /\ pc = "returned"

\* C6  Total failure: when every live attempt has failed and no payload is
\* stored for the key, the call fails with an error, and that error is the
\* one the last attempt raised.
TotalFailure ==
  (AllAttemptsFailed /\ NoPayload(Item))
    => /\ pc = "threw"
       /\ ret.st = "error"
       /\ ret.v.t = "error"
       /\ ret.v.id = requests

TotalFailureWitness ==
  /\ AllAttemptsFailed
  /\ NoPayload(Item)
  /\ pc = "threw"
  /\ requests = 3
  /\ ret.v.id = 3
  /\ ret.v.name = "SyntaxError"

\* C7  Isolation: run never rejects; whatever way a pipeline ends, the next
\* pipeline is started (or run is finished after the last); and a step
\* changes only the sinks of the resource being handled.
Isolation ==
  [][ /\ pc' # "rejected"
      /\ (Settled /\ now' = now)
           => (ri' = ri + 1
               /\ pc' = IF ri < NumResources THEN "ready" ELSE "done")
      /\ \A s \in Selectors :
           sinks'[s] # sinks[s] => (Settled /\ s \in Resources[ri].sels) ]_vars

IsolationWitness ==
  /\ pc = "done"
  /\ sinks[".bv"] # Blank
  /\ sinks[".bdu-src"] = Blank
  /\ sinks[".jv"] = Blank
  /\ sinks[".nv"] = Blank
  /\ sinks[".sv"] # Blank

\* C8  Write-through: a call that succeeds through the network and whose
\* write the store accepted leaves {ts = now, data = the returned payload}
\* under the key, and a following call for the key within the TTL returns
\* that payload without a network request.
WriteThrough ==
  [][ (pc = "inflight" /\ pc' = "returned" /\ wrote' = "stored")
        => /\ ret' = [st |-> "value", v |-> fetched']
           /\ Item' = Entry(JNum(now), ret'.v)
           /\ \A t \in {now, now + 1, now + CACHE_TTL_MS} :
                LET c == getCached(store', Repo, t) IN
                ~c.threw /\ Truthy(c.v) /\ c.v = ret'.v ]_vars

\* C9  A rejected cache write is swallowed: the call still returns the
\* fetched payload and the store is left as it was.
RejectedWriteSwallowed ==
  [][ (pc = "inflight" /\ wrote' = "rejected")
        => /\ pc' = "returned"
           /\ ret' = [st |-> "value", v |-> fetched']
           /\ fetched' \in Bodies
           /\ requests' = requests
           /\ store' = store ]_vars

RejectedWriteSwallowedWitness ==
  /\ pc = "returned"
  /\ wrote = "rejected"
  /\ ValidEntry(Item)
  /\ ret.v = fetched
  /\ ret.v # Payload(Item)

\* C10  Cache corruption is a miss: for a stored item that is missing,
\* unparseable, not an object, or without a timestamp or a payload, getCached
\* does not raise and gives null, and the call goes to the network with its
\* first attempt, as it does when nothing is stored.
CorruptionIsMiss ==
  [][ (CallStep /\ Corrupt(Item))
        => /\ getCached(store, Repo, now) = [threw |-> FALSE, v |-> JNull]
           /\ pc' = "inflight"
           /\ attempt' = 0
           /\ requests' = 1
           /\ lastErr' = JNull
           /\ store' = store ]_vars

CorruptionIsMissWitness ==
  /\ pc = "inflight"
  /\ requests = 1
  /\ Item = Text("{oops")

\* a field that holds a usable string
Usable(v) == v.t = "string" /\ v.s # <<>>

\* the preferred field, then the tag field, then the name field: the first
\* that holds a usable string, null when none does
SelectedField(release, prefer) ==
  LET c == <<Get(release, prefer), Get(release, "tag_name"),
             Get(release, "name")>> IN
  IF Usable(c[1]) THEN c[1]
  ELSE IF Usable(c[2]) THEN c[2]
  ELSE IF Usable(c[3]) THEN c[3]
  ELSE JNull

LeadsWithV(x) == x # <<>> /\ Head(x) \in {"v", "V"}

\* x without one leading v or V, if it has one
WithoutOneV(x) == IF LeadsWithV(x) THEN Tail(x) ELSE x

\* C11  Version field selection: the version is taken from the preferred
\* field, or, when that field is absent or not a string, from the tag field,
\* then from the name field; the result is absent only when none of them
\* holds a usable string.
VersionFieldSelection ==
  fout.op = "version"
    => LET c == SelectedField(fin.release, fin.prefer) IN
       IF c = JNull THEN fout.v = JNull
       ELSE fout.v = JStr(IF fin.strip THEN WithoutOneV(Trim(c.s))
                          ELSE Trim(c.s))

\* C12 as claimed  Normalization idempotence: one strip removes exactly one
\* leading v or V, and stripping a stripped version again returns it
\* unchanged.
NormalizationIdempotence ==
  /\ (fout.op = "version" /\ fin.strip)
       => LET u == normalizeVersion(fin.release, fin.prefer, FALSE) IN
          IF u = JNull THEN fout.v = JNull
          ELSE fout.v = JStr(WithoutOneV(u.s))
  /\ fout.op = "restrip" => fout.v = fout.first

\* C12 as amended  One strip removes exactly one leading v or V, so that
\* stripping a stripped version again returns it unchanged exactly when the
\* stripped version does not itself begin with v or V; otherwise it removes
\* one more.
NormalizationStripsOne ==
  /\ (fout.op = "version" /\ fin.strip)
       => LET u == normalizeVersion(fin.release, fin.prefer, FALSE) IN
          IF u = JNull THEN fout.v = JNull
          ELSE fout.v = JStr(WithoutOneV(u.s))
  /\ fout.op = "restrip"
       => /\ fout.v = JStr(WithoutOneV(fout.first.s))
          /\ (fout.v = fout.first) <=> ~LeadsWithV(fout.first.s)

NormalizationStripsOneWitness ==
  /\ fout.op = "restrip"
  /\ fout.first = JStr(<<"V", "5">>)
  /\ fout.v = JStr(<<"5">>)
  /\ Get(fin.release, "tag_name") = JStr(<<"v", "V", "5">>)

\* what the claim expects of the first asset
ExpectedAssetUrl(release) ==
  LET as == Get(release, "assets") IN
  IF as.t = "array" /\ Len(as.a) >= 1
     /\ Usable(Get(as.a[1], "browser_download_url"))
  THEN Get(as.a[1], "browser_download_url")
  ELSE JNull

\* C13  The primary asset URL is the download URL of the first asset when the
\* assets are a non-empty array and that URL is a non-empty string, and is
\* absent in every other case; no later asset is looked at.
FirstAssetOnly ==
  fout.op = "asset" => fout.v = ExpectedAssetUrl(fin.release)

FirstAssetOnlyWitness ==
  /\ fout.op = "asset"
  /\ fout.v = JNull
  /\ Get(fin.release, "assets").t = "array"
  /\ Len(Get(fin.release, "assets").a) = 2
  /\ ~Usable(Get(Get(fin.release, "assets").a[1], "browser_download_url"))
  /\ Usable(Get(Get(fin.release, "assets").a[2], "browser_download_url"))

\* what the TTL-checked read accepts when the age is left out of account: a
\* stored object with a timestamp and a payload
ReadableIgnoringAge(raw) ==
  /\ raw # NoItem
  /\ raw.k = "json"
  /\ StoredValue(raw).t \in {"object", "array"}
  /\ Truthy(Timestamp(raw))
  /\ Truthy(Payload(raw))

\* C14  The stale read is the read without the TTL check: once every live
\* attempt has failed, the call returns the stored payload exactly for the
\* stored values that the TTL-checked read would accept if age were ignored;
\* a value that is malformed or lacks a timestamp or a payload gives nothing,
\* and the call fails with the last error.
StaleReadIsUntimedRead ==
  AllAttemptsFailed
    => IF ReadableIgnoringAge(Item)
       THEN pc = "returned" /\ ret = [st |-> "value", v |-> Payload(Item)]
       ELSE /\ pc = "threw"
            /\ ret.st = "error"
            /\ ret.v.t = "error"
            /\ ret.v.id = requests

\* the wait that precedes attempt number n + 1
WaitBefore(n) == IF n = 1 THEN 400 ELSE 900

\* C15  Backoff ordering: within one call every attempt after the first is
\* preceded by exactly one wait that follows the failure of the previous
\* attempt; the waits are 400 ms then 900 ms, so non-decreasing; and no wait
\* follows the final attempt, a successful attempt or a 403/429 failure.
BackoffOrdering ==
  [][ /\ (requests' = requests + 1 /\ requests > 0)
           => /\ pc = "sleeping"
              /\ Len(waits) = requests
              /\ waits' = waits
      /\ Len(waits') > Len(waits)
           => /\ pc = "inflight" /\ pc' = "sleeping"
              /\ Len(waits) = requests - 1
              /\ waits' = Append(waits, WaitBefore(requests))
              /\ (waits # <<>> => waits[Len(waits)] <= WaitBefore(requests))
              /\ requests < 1 + MAX_RETRIES
              /\ fetched' = Undefined
              /\ lastErr'.t = "error" /\ lastErr'.id = requests
              /\ ~RateLimitStatus(lastErr')
      /\ (pc = "inflight" /\ Settled')
           => /\ waits' = waits
              /\ Len(waits) = requests - 1
    ]_vars

BackoffOrderingWitness ==
  /\ pc = "inflight"
  /\ requests = 1 + MAX_RETRIES
  /\ waits = <<400, 900>>

\* C16  Fetcher cleanup: every invocation of fetchWithTimeout issues exactly
\* one request and arms one timer; however it finishes (success, error
\* status, undecodable body, abort) the timer is cleared, so that a timer is
\* pending only while its request is in flight and the abort runs only in
\* an invocation that has not finished; and when the timer fires, the
\* invocation fails with an error without a status code.
FetcherCleanup ==
  [][ /\ (pc # "inflight" /\ pc' = "inflight")
           => requests' = requests + 1 /\ timer' /\ ~timer
      /\ requests' # requests
           => \/ pc' = "inflight" /\ requests' = requests + 1
              \/ requests' = 0 /\ pc' \in {"ready", "done", "rejected"}
      /\ (pc = "inflight" /\ pc' # "inflight") => ~timer'
      /\ timer' <=> pc' = "inflight"
      /\ (aborted' /\ ~aborted)
           => /\ pc = "inflight" /\ timer
              /\ pc' # "inflight" \/ requests' = requests + 1
              /\ fetched' = fetched /\ store' = store
              /\ lastErr'.t = "error"
              /\ lastErr'.id = requests
              /\ lastErr'.status = Undefined
    ]_vars

\* C17  Cache entry invariant: an entry the system has written to the cache
\* store has a non-null payload, whatever body the upstream returned with
\* its successful response.
WrittenPayloadNonNull ==
  (wrote = "stored" /\ pc = "returned")
    => /\ Item # NoItem
       /\ Item.k = "json"
       /\ ~IsNullish(Payload(Item))

\* the order in which run handles the repositories
RunOrder ==
  <<"twbs/bootstrap", "jquery/jquery", "sindresorhus/modern-normalize",
    "Splidejs/splide">>

\* C18  Sequential pipelines: run handles the resources in a fixed order; the
\* whole attempt sequence of a resource (attempts, waits, fallback) is over
\* before the next resource's cache read or request; at most one request is
\* in flight at any time.
SequentialPipelines ==
  [][ /\ ri' # ri
           => /\ ri' = ri + 1
              /\ Settled
              /\ ~timer
              /\ pc' = IF ri = Len(RunOrder) THEN "done" ELSE "ready"
              /\ requests' = 0 /\ waits' = <<>>
      /\ (pc' \in {"ready", "inflight", "sleeping", "returned", "threw"})
           => ri' \in 1..Len(RunOrder) /\ Resources[ri'].repo = RunOrder[ri']
      /\ CallStep => ~timer /\ requests = 0 /\ waits = <<>> /\ ri' = ri
      /\ requests' = requests + 1
           => ~timer /\ pc \in {"ready", "sleeping"} /\ ri' = ri
    ]_vars

SequentialPipelinesWitness ==
  /\ ri = 2
  /\ pc = "inflight"
  /\ requests = 1
  /\ timer
  /\ sinks[".bv"] # Blank

\* the key of the resource being handled, as the store knows it
KeyOf(repo) == <<"boiler:gh_latest:", repo>>

\* C19  Cache frame: a call changes the store only by the write-through of a
\* successful fetch, and only under its own key; a fresh hit does not
\* refresh the entry, failed attempts and the stale fallback change nothing,
\* no entry is deleted and the entries of other keys stay as they are.
CacheFrame ==
  [][ /\ store' # store
           => /\ pc = "inflight" /\ pc' = "returned"
              /\ wrote' = "stored"
              /\ ret' = [st |-> "value", v |-> fetched']
              /\ \A k \in DOMAIN store :
                   k # KeyOf(RunOrder[ri]) => store'[k] = store[k]
              /\ store'[KeyOf(RunOrder[ri])] = Entry(JNum(now), fetched')
      /\ DOMAIN store' = DOMAIN store
      /\ \A k \in DOMAIN store : store[k] # NoItem => store'[k] # NoItem
      /\ (CallStep /\ Settled') => store' = store
      /\ (Settled' /\ fetched' = Undefined) => store' = store
    ]_vars

CacheFrameWitness ==
  /\ ri = 2
  /\ pc = "returned"
  /\ wrote = "stored"
  /\ store[KeyOf("twbs/bootstrap")] = Text("{oops")
  /\ store[KeyOf("jquery/jquery")] = Entry(JNum(now), RelA)
  /\ store[KeyOf("Splidejs/splide")] = NoItem

\* C20  Termination: when every request is eventually answered or cut by
\* its timer and every wait eventually elapses, each call eventually returns
\* or fails, after at most 1 + MAX_RETRIES requests and MAX_RETRIES waits,
\* and run eventually finishes, every resource handled.
Termination ==
  /\ [](requests <= 1 + MAX_RETRIES /\ Len(waits) <= MAX_RETRIES)
  /\ (pc \in {"ready", "inflight", "sleeping"}) ~> Settled
  /\ <>[](pc = "done" /\ ri = Len(RunOrder) + 1)

TerminationWitness ==
  /\ pc = "done"
  /\ ri = Len(RunOrder) + 1
  /\ now = Start + 1
  /\ store[KeyOf("twbs/bootstrap")] = Entry(JNum(Start), RelOld)
  /\ store[KeyOf("jquery/jquery")] = NoItem
  /\ store[KeyOf("Splidejs/splide")] = Entry(JNum(now), RelB)
  /\ sinks[".bv"] # Blank
  /\ sinks[".jv"] = Blank
  /\ sinks[".sv"] # Blank

====
